---- MODULE Spec2Model ----
(***************************************************************************)
(* A model of the PDF chat application:                                    *)
(*   - the page-reference extractor and the rendering of the chat          *)
(*     component (src/app/components/ChatInterface.tsx,                    *)
(*     parsePageReferences and formatMessageContent),                      *)
(*   - the chat component's sendMessage and the chat route it calls        *)
(*     (src/app/components/ChatInterface.tsx, src/unnamed/part_000),       *)
(*   - the upload route (src/app/api/upload-pdf/route.ts),                 *)
(*   - the page and its uploader (Home of src/unnamed/part_000,            *)
(*     PDFUploader of src/unnamed/part_001).                               *)
(* Texts are sequences of one-character strings, so that the regular       *)
(* expression of the extractor is matched character by character.          *)
(***************************************************************************)
EXTENDS Integers, Sequences, FiniteSets, TLC

VARIABLES
    \* ---- reference extractor (pure function under test)
    text,             \* the text handed to parsePageReferences
    parsed,           \* TRUE once parsePageReferences has been applied
    pageRefs,         \* its result
    formatted,        \* TRUE once formatMessageContent has been applied
    nodes,            \* its result: the rendered spans and buttons
    clicked,          \* the button of the rendered conversation activated last:
                      \* message number and part number
    \* ---- upload route (one invocation of POST at a time)
    uPc,              \* where the handler is: idle, write, upload, poll, sleep, join, done
    uFile,            \* the file of the request being handled, by its name
    tempPath,         \* the handler's tempPath (NoPath is null)
    clock,            \* Date.now()
    fsFiles,          \* the paths that exist in tmpdir()
    extInner,         \* the promise of extractImagesFromPython: none, pending, resolved, rejected
    extData,          \* the body the extraction service answered with
    extState,         \* extractionPromise (.then.catch of it): none, running, fulfilled, rejected
    sessionId,        \* the handler's local sessionId
    images,           \* the handler's local images
    regUri,           \* uploadResult.file.uri
    fileState,        \* fileState.state of the last getFile
    uResp,            \* the response the handler returned
    nReq,             \* requests received so far
    peer,             \* a second invocation of POST that runs at the same time: its
                      \* position, its file name and its tempPath
    \* ---- page (Home), chat component (ChatInterface) and chat route
    uploadData,       \* Home: the UploadResponse the chat is about
    highlightedPage,  \* Home: the highlighted page (NoPage is undefined)
    signals,          \* the page numbers handlePageReference has been called with
    messages,         \* ChatInterface: the conversation
    input,            \* ChatInterface: the text of the textarea
    loading,          \* ChatInterface: the loading flag
    calls,            \* the invocations of sendMessage that passed the guard
    lastTrigger,      \* how the last invocation of sendMessage went: none, sent, ignored
    \* ---- page (Home) and uploader component (PDFUploader)
    inst,             \* how often Home has switched between uploader and chat: the
                      \* component mounted now is instance number inst
    uploading,        \* PDFUploader: the uploading flag
    progress,         \* PDFUploader: the progress text
    uError,           \* PDFUploader: the error text
    uploads           \* the invocations of handleUpload that reached their fetch

refVars == <<text, parsed, pageRefs, formatted, nodes, clicked>>

uploadVars == <<uPc, uFile, tempPath, clock, fsFiles, extInner, extData, extState, sessionId,
                images, regUri, fileState, uResp, nReq, peer>>

chatVars == <<uploadData, highlightedPage, signals, messages, input, loading, calls, lastTrigger>>

pageVars == <<inst, uploading, progress, uError, uploads>>

vars == <<text, parsed, pageRefs, formatted, nodes, clicked,
          uPc, uFile, tempPath, clock, fsFiles, extInner, extData, extState, sessionId, images,
          regUri, fileState, uResp, nReq, peer,
          uploadData, highlightedPage, signals, messages, input, loading, calls, lastTrigger,
          inst, uploading, progress, uError, uploads>>

-----------------------------------------------------------------------------
(* Bounds of the model *)

\* number of chunks a generated text is made of
MaxChunks == 3

\* number of upload requests the route receives
MaxRequests == 2

\* largest value of Date.now()
MaxClock == 1

\* largest number of images the extraction service returns, and largest page number
MaxPages == 2

\* number of invocations of sendMessage that pass its guard
MaxSends == 3

\* number of invocations of handleUpload that reach their fetch
MaxUploads == 2

\* number of invocations of sendMessage that pass its guard, on the page
MaxPageSends == 1

\* number of calls of handlePageReference after which no button is activated
MaxSignals == 3

\* number of requests posted to the chat route by a client
MaxPosts == 1

-----------------------------------------------------------------------------
(* Texts *)

Cat(ss) ==
    LET RECURSIVE cat(_)
        cat(s) == IF s = <<>> THEN <<>> ELSE Head(s) \o cat(Tail(s))
    IN cat(ss)

\* the chunks texts are generated from: whole markers in several spellings,
\* pieces of markers and ordinary characters
ChMarker1 == <<"[", "S", "e", " ", "S", "i", "d", "a", " ", "1", "]">>
ChMarker2Lower == <<"[", "s", "e", " ", "s", "i", "d", "a", " ", "2", "]">>
ChPrefix == <<"[", "S", "e", " ", "S", "i", "d", "a", " ">>
ChNoDigit == <<"[", "S", "E", " ", "S", "I", "D", "A", " ", "x", "]">>
ChNoSpace == <<"[", "S", "e", "S", "i", "d", "a", " ", "1", "]">>
ChNoOpen == <<"S", "e", " ", "S", "i", "d", "a", " ", "1", "]">>
ChDigit1 == <<"1">>
ChDigits07 == <<"0", "7">>
ChMarker12Upper == <<"[", "S", "E", " ", "S", "I", "D", "A", " ", "1", "2", "]">>
ChClose == <<"]">>
ChPlain == <<"a", " ">>

Chunks == {ChMarker1, ChMarker2Lower, ChPrefix, ChNoDigit, ChNoSpace, ChNoOpen,
           ChDigit1, ChDigits07, ChMarker12Upper, ChClose, ChPlain}

ChunkSeqs == UNION {[1..n -> Chunks] : n \in 0..MaxChunks}

Texts == {Cat(cs) : cs \in ChunkSeqs}

-----------------------------------------------------------------------------
(* parsePageReferences: /\[Se Sida (\d+)\]/gi, matchAll, parseInt *)

Digits == {"0", "1", "2", "3", "4", "5", "6", "7", "8", "9"}

DigitVal(c) ==
    CASE c = "0" -> 0 [] c = "1" -> 1 [] c = "2" -> 2 [] c = "3" -> 3
      [] c = "4" -> 4 [] c = "5" -> 5 [] c = "6" -> 6 [] c = "7" -> 7
      [] c = "8" -> 8 [] c = "9" -> 9

\* the canonical form the "i" flag compares characters in
Canon(c) ==
    CASE c = "S" -> "s" [] c = "E" -> "e" [] c = "I" -> "i"
      [] c = "D" -> "d" [] c = "A" -> "a" [] OTHER -> c

\* the literal part of the pattern before the digits: "[Se Sida "
RegexLiteral == <<"[", "S", "e", " ", "S", "i", "d", "a", " ">>

\* a text character against a pattern character, without the "i" flag
CharMatchesExact(c, p) == c = p

\* a text character against a pattern character, under the "i" flag
CharMatches(c, p) == Canon(c) = Canon(p)

\* the index after the longest run of digits starting at index i (\d+ is greedy,
\* and giving a digit back never helps: the next pattern character is "]")
DigitRunEnd(t, i) ==
    LET RECURSIVE run(_)
        run(k) == IF k <= Len(t) /\ t[k] \in Digits THEN run(k + 1) ELSE k
    IN run(i)

\* the same for a pattern that ends with any character in place of "]"
MatchLenAtAnyClose(t, i) ==
    LET n == Len(RegexLiteral)
        e == DigitRunEnd(t, i + n)
    IN IF /\ i + n - 1 <= Len(t)
          /\ \A k \in 1..n : CharMatches(t[i + k - 1], RegexLiteral[k])
          /\ e > i + n
          /\ e <= Len(t)
       THEN e - i + 1
       ELSE 0

\* the length of the match of the pattern that starts at index i, 0 if none
MatchLenAt(t, i) ==
    LET n == Len(RegexLiteral)
        e == DigitRunEnd(t, i + n)
    IN IF /\ i + n - 1 <= Len(t)
          /\ \A k \in 1..n : CharMatches(t[i + k - 1], RegexLiteral[k])
          /\ e > i + n
          /\ e <= Len(t)
          /\ t[e] = "]"
       THEN e - i + 1
       ELSE 0

\* text.matchAll(regex) with the "g" flag: the leftmost match at or after
\* lastIndex, then lastIndex moves to the end of that match.  Each match is
\* [index, length, group] with group the text of (\d+).
MatchAll(t) ==
    LET RECURSIVE scan(_)
        scan(i) ==
            IF i > Len(t) THEN <<>>
            ELSE LET l == MatchLenAt(t, i)
                 IN IF l > 0
                    THEN <<[index |-> i, length |-> l,
                            group |-> SubSeq(t, i + Len(RegexLiteral), i + l - 2)]>>
                         \o scan(i + l)
                    ELSE scan(i + 1)
    IN scan(1)

\* parseInt(s, 10) of a string of decimal digits
ParseInt(s) ==
    LET RECURSIVE acc(_, _)
        acc(k, v) == IF k > Len(s) THEN v ELSE acc(k + 1, v * 10 + DigitVal(s[k]))
    IN acc(1, 0)

\* the extractor, had it stopped at the first match
parsePageReferencesFirstMatch(t) ==
    LET matches == MatchAll(t)
    IN IF matches = <<>> THEN <<>> ELSE <<ParseInt(matches[1].group)>>

\* [...text.matchAll(regex)].map(match => parseInt(match[1], 10))
parsePageReferences(t) ==
    LET matches == MatchAll(t)
    IN [k \in 1..Len(matches) |-> ParseInt(matches[k].group)]

-----------------------------------------------------------------------------
(* formatMessageContent: split(/(\[Se Sida \d+\])/gi), then match(/\[Se Sida (\d+)\]/i)
   on every part *)

\* the parts of split without its empty strings
SplitDropEmpty(t) ==
    LET RECURSIVE scan(_, _)
        scan(p, q) ==
            IF q > Len(t) THEN (IF p > Len(t) THEN <<>> ELSE <<SubSeq(t, p, Len(t))>>)
            ELSE LET l == MatchLenAt(t, q)
                 IN IF l > 0
                    THEN (IF p = q THEN <<>> ELSE <<SubSeq(t, p, q - 1)>>)
                         \o <<SubSeq(t, q, q + l - 1)>>
                         \o scan(q + l, q + l)
                    ELSE scan(p, q + 1)
    IN scan(1, 1)

\* content.split(separator) with a separator that has one capture group: the
\* text before each match of the separator, the match itself, and at the end the
\* text after the last match.  The separator is tried at q; p is where the pending
\* piece starts.
Split(t) ==
    LET RECURSIVE scan(_, _)
        scan(p, q) ==
            IF q > Len(t) THEN <<SubSeq(t, p, Len(t))>>
            ELSE LET l == MatchLenAt(t, q)
                 IN IF l > 0
                    THEN <<SubSeq(t, p, q - 1), SubSeq(t, q, q + l - 1)>>
                         \o scan(q + l, q + l)
                    ELSE scan(p, q + 1)
    IN scan(1, 1)

\* part.match of the pattern without the "i" flag
PartMatchCaseSensitive(part) ==
    LET n == Len(RegexLiteral)
        len(i) == LET e == DigitRunEnd(part, i + n)
                  IN IF /\ i + n - 1 <= Len(part)
                        /\ \A k \in 1..n : CharMatchesExact(part[i + k - 1], RegexLiteral[k])
                        /\ e > i + n
                        /\ e <= Len(part)
                        /\ part[e] = "]"
                     THEN e - i + 1
                     ELSE 0
        starts == {i \in 1..Len(part) : len(i) > 0}
    IN IF starts = {} THEN [found |-> FALSE]
       ELSE LET i == CHOOSE i \in starts : \A j \in starts : i <= j
            IN [found |-> TRUE, group |-> SubSeq(part, i + n, i + len(i) - 2)]

\* part.match(/\[Se Sida (\d+)\]/i): the leftmost match anywhere in the part, or null
PartMatch(part) ==
    LET starts == {i \in 1..Len(part) : MatchLenAt(part, i) > 0}
    IN IF starts = {} THEN [found |-> FALSE]
       ELSE LET i == CHOOSE i \in starts : \A j \in starts : i <= j
            IN [found |-> TRUE,
                group |-> SubSeq(part, i + Len(RegexLiteral), i + MatchLenAt(part, i) - 2)]

\* the elements formatMessageContent returns: a button for a part that holds a
\* marker, a span with the part's text for any other part
formatMessageContent(content) ==
    LET parts == Split(content)
    IN [k \in 1..Len(parts) |->
          LET match == PartMatch(parts[k])
          IN IF match.found
             THEN [kind |-> "button", pageNumber |-> ParseInt(match.group)]
             ELSE [kind |-> "span", text |-> parts[k]]]

-----------------------------------------------------------------------------
(* The extractor and the rendering applied to a text *)

\* no token has been activated
NoClick == [msg |-> 0, part |-> 0]

RefsInit ==
    /\ text \in Texts
    /\ parsed = FALSE
    /\ pageRefs = <<>>
    /\ formatted = FALSE
    /\ nodes = <<>>
    /\ clicked = NoClick

\* the extractor at rest, for the specifications of the other components
RefsIdle ==
    /\ text = <<>>
    /\ parsed = FALSE
    /\ pageRefs = <<>>
    /\ formatted = FALSE
    /\ nodes = <<>>
    /\ clicked = NoClick

ParseRefs ==
    /\ ~parsed
    /\ pageRefs' = parsePageReferences(text)
    /\ parsed' = TRUE
    /\ UNCHANGED <<text, formatted, nodes, clicked>>
    /\ UNCHANGED <<uploadVars, chatVars, pageVars>>

\* a message with this content is rendered
FormatContent ==
    /\ ~formatted
    /\ nodes' = formatMessageContent(text)
    /\ formatted' = TRUE
    /\ UNCHANGED <<text, parsed, pageRefs, clicked>>
    /\ UNCHANGED <<uploadVars, chatVars, pageVars>>

-----------------------------------------------------------------------------
(* The upload route: POST of src/app/api/upload-pdf/route.ts *)

NoPath == <<>>
NoResp == [status |-> 0]

FileNames == {"a.pdf", "b.pdf"}

\* formData.get('file') of a form without a file entry: null
NoFile == ""

\* the request body is no form data: there is no form to read a file from
NoForm == "<no form data>"

\* what formData.get('file') returns for the forms a client sends
FormFiles == FileNames \cup {NoFile}

\* the check for the file, had it let every form pass
MissingFileNever(file) == FALSE

\* if (!file)
MissingFile(file) == file = NoFile

\* the file references the AI backend issues
Uris == {"files/u1", "files/u2"}

\* FileState of @google/generative-ai/server
FileStates == {"STATE_UNSPECIFIED", "PROCESSING", "ACTIVE", "FAILED"}

\* one image as the extraction service describes it
DigitChar(p) ==
    CASE p = 0 -> "0" [] p = 1 -> "1" [] p = 2 -> "2" [] p = 3 -> "3"
      [] p = 4 -> "4" [] p = 5 -> "5" [] p = 6 -> "6" [] p = 7 -> "7"
      [] p = 8 -> "8" [] p = 9 -> "9"

\* the label and the id the extraction service gives page p: "Sida 1", "img-1"
LabelSida(p) == <<"S", "i", "d", "a", " ", DigitChar(p)>>
ImageId(p) == <<"i", "m", "g", "-", DigitChar(p)>>

ServiceImage(p) ==
    [id |-> ImageId(p), page_number |-> p, label |-> LabelSida(p),
     width |-> "w", height |-> "h"]

ServiceImageLists ==
    UNION {[1..n -> {ServiceImage(p) : p \in 1..MaxPages}] : n \in 0..MaxPages}

\* the JSON bodies the extraction service answers with
ServiceData == [session_id : {"s1"}, images : ServiceImageLists]

\* data.images.map(img => ({...})): the service's images in the route's format
ConvertImages(data) ==
    [k \in 1..Len(data.images) |->
        [id |-> data.images[k].id,
         pageNumber |-> data.images[k].page_number,
         label |-> data.images[k].label,
         url |-> <<"images", data.session_id, data.images[k].id>>,
         width |-> data.images[k].width,
         height |-> data.images[k].height]]

\* no body: the service has not answered, or not with a body of this shape
NoData == [session_id |-> "", images |-> <<>>]

\* the result with the first image only
ExtractResultFirstImage(data) ==
    [sessionId |-> data.session_id,
     images |-> [k \in 1..(IF data.images = <<>> THEN 0 ELSE 1) |-> ConvertImages(data)[k]]]

\* extractImagesFromPython's result for a body of the service
ExtractResult(data) == [sessionId |-> data.session_id, images |-> ConvertImages(data)]

\* join(tmpdir(), `upload-${Date.now()}-${file.name}`)
TempPathOf(now, name) == <<"upload", now, name>>

\* unlink(path): the path no longer exists (of a missing path it rejects, and the
\* rejection is swallowed by .catch(() => {}))
Unlink(files, path) == files \ {path}

CleanupNone(files, path) == files

\* the clean-up of the success path: if (tempPath) await unlink(tempPath).catch(...)
CleanupOnSuccess(files, path) == IF path # NoPath THEN Unlink(files, path) ELSE files

\* the clean-up of the catch block
CleanupOnError(files, path) == IF path # NoPath THEN Unlink(files, path) ELSE files

\* extractionPromise after extractImagesFromPython rejected, had .catch been left out
ExtractionErrorPropagates == "rejected"

\* extractionPromise after extractImagesFromPython rejected: .catch logs the error
\* and the promise is fulfilled
ExtractionErrorCaught == "fulfilled"

ProcessingFailedIgnored(st) == FALSE

\* if (fileState.state === FileState.FAILED) throw
ProcessingFailed(st) == st = "FAILED"

\* the polling loop, had it stopped at the first answer of getFile
StillProcessingNever(st) == FALSE

\* while (fileState.state === FileState.PROCESSING)
StillProcessing(st) == st = "PROCESSING"

\* the second invocation before its request has arrived
PeerIdle == [pc |-> "idle", file |-> "", tempPath |-> NoPath]

UploadInit ==
    /\ uPc = "idle"
    /\ uFile = ""
    /\ tempPath = NoPath
    /\ clock = 0
    /\ fsFiles = {}
    /\ extInner = "none"
    /\ extData = NoData
    /\ extState = "none"
    /\ sessionId = ""
    /\ images = <<>>
    /\ regUri = ""
    /\ fileState = "none"
    /\ uResp = NoResp
    /\ nReq = 0
    /\ peer = PeerIdle

\* the catch block of POST, entered with tempPath = path: clean up, answer 500
ErrorExit(path) ==
    /\ fsFiles' = CleanupOnError(fsFiles, path)
    /\ uResp' = [status |-> 500, error |-> "Failed to upload PDF"]
    /\ uPc' = "done"

\* Date.now() advances
Tick ==
    /\ clock < MaxClock
    /\ clock' = clock + 1
    /\ UNCHANGED <<uPc, uFile, tempPath, fsFiles, extInner, extData, extState, sessionId, images,
                   regUri, fileState, uResp, nReq>>
    /\ UNCHANGED <<peer, refVars, chatVars, pageVars>>

\* a request arrives and POST runs up to writeFile.  The locals of an earlier
\* invocation are gone; an extraction it left running no longer has any effect.
UploadRequest ==
    /\ uPc \in {"idle", "done"}
    /\ nReq < MaxRequests
    /\ nReq' = nReq + 1
    /\ extInner' = "none"
    /\ extData' = NoData
    /\ extState' = "none"
    /\ sessionId' = ""
    /\ images' = <<>>
    /\ regUri' = ""
    /\ fileState' = "none"
    /\ \/ \* request.formData() throws: tempPath is still null
          /\ uFile' = NoForm
          /\ tempPath' = NoPath
          /\ ErrorExit(NoPath)
       \/ \E file \in FormFiles :
          /\ uFile' = file
          /\ IF MissingFile(file)
             THEN /\ tempPath' = NoPath
                  /\ uResp' = [status |-> 400, error |-> "Missing file"]
                  /\ uPc' = "done"
                  /\ UNCHANGED fsFiles
             ELSE /\ tempPath' = TempPathOf(clock, file)
                  /\ uResp' = NoResp
                  /\ uPc' = "write"
                  /\ UNCHANGED fsFiles
    /\ UNCHANGED clock
    /\ UNCHANGED <<peer, refVars, chatVars, pageVars>>

\* await writeFile(tempPath, buffer), then extractImagesFromPython is started
WriteFile ==
    /\ uPc = "write"
    /\ \/ /\ fsFiles' = fsFiles \cup {tempPath}
          /\ sessionId' = ""
          /\ images' = <<>>
          /\ extInner' = "pending"
          /\ extData' = NoData
          /\ extState' = "running"
          /\ uPc' = "upload"
          /\ UNCHANGED uResp
       \/ \* writeFile rejects, having created the file or not
          \E partial \in BOOLEAN :
          /\ fsFiles' = CleanupOnError(IF partial THEN fsFiles \cup {tempPath} ELSE fsFiles,
                                       tempPath)
          /\ uResp' = [status |-> 500, error |-> "Failed to upload PDF"]
          /\ uPc' = "done"
          /\ UNCHANGED <<sessionId, images, extInner, extData, extState>>
    /\ UNCHANGED <<uFile, tempPath, clock, regUri, fileState, nReq>>
    /\ UNCHANGED <<peer, refVars, chatVars, pageVars>>

\* await fileManager.uploadFile(tempPath, ...)
UploadFile ==
    /\ uPc = "upload"
    /\ \/ /\ tempPath \in fsFiles
          /\ \E u \in Uris : regUri' = u
          /\ uPc' = "poll"
          /\ UNCHANGED <<fsFiles, uResp>>
       \/ /\ ErrorExit(tempPath)
          /\ UNCHANGED regUri
    /\ UNCHANGED <<uFile, tempPath, clock, extInner, extData, extState, sessionId, images,
                   fileState, nReq>>
    /\ UNCHANGED <<peer, refVars, chatVars, pageVars>>

\* await fileManager.getFile(...): the first call and the call of each loop round,
\* then the loop condition and the check for FAILED
GetFile ==
    /\ uPc = "poll"
    /\ \/ \E st \in FileStates :
          /\ fileState' = st
          /\ IF StillProcessing(st)
             THEN /\ uPc' = "sleep"
                  /\ UNCHANGED <<fsFiles, uResp>>
             ELSE IF ProcessingFailed(st)
             THEN ErrorExit(tempPath)
             ELSE /\ uPc' = "join"
                  /\ UNCHANGED <<fsFiles, uResp>>
       \/ \* getFile rejects
          /\ ErrorExit(tempPath)
          /\ UNCHANGED fileState
    /\ UNCHANGED <<uFile, tempPath, clock, extInner, extData, extState, sessionId, images,
                   regUri, nReq>>
    /\ UNCHANGED <<peer, refVars, chatVars, pageVars>>

\* await new Promise(resolve => setTimeout(resolve, 2000))
Sleep ==
    /\ uPc = "sleep"
    /\ uPc' = "poll"
    /\ UNCHANGED <<uFile, tempPath, clock, fsFiles, extInner, extData, extState, sessionId, images,
                   regUri, fileState, uResp, nReq>>
    /\ UNCHANGED <<peer, refVars, chatVars, pageVars>>

\* extractImagesFromPython resolves and .then stores its result
ExtractionSucceeds ==
    /\ extState = "running"
    /\ \E data \in ServiceData :
          /\ extData' = data
          /\ sessionId' = ExtractResult(data).sessionId
          /\ images' = ExtractResult(data).images
    /\ extInner' = "resolved"
    /\ extState' = "fulfilled"
    /\ UNCHANGED <<uPc, uFile, tempPath, clock, fsFiles, regUri, fileState, uResp, nReq>>
    /\ UNCHANGED <<peer, refVars, chatVars, pageVars>>

\* extractImagesFromPython rejects: fetch throws, the response is not ok, or the
\* body is not of the expected shape
ExtractionFails ==
    /\ extState = "running"
    /\ extInner' = "rejected"
    /\ UNCHANGED extData
    /\ extState' = ExtractionErrorCaught
    /\ UNCHANGED <<uPc, uFile, tempPath, clock, fsFiles, sessionId, images, regUri,
                   fileState, uResp, nReq>>
    /\ UNCHANGED <<peer, refVars, chatVars, pageVars>>

\* await extractionPromise, clean up, answer with the UploadResponse
JoinAndRespond ==
    /\ uPc = "join"
    /\ extState \in {"fulfilled", "rejected"}
    /\ IF extState = "rejected"
       THEN ErrorExit(tempPath)
       ELSE /\ fsFiles' = CleanupOnSuccess(fsFiles, tempPath)
            /\ uResp' = [status |-> 200, success |-> TRUE, fileName |-> uFile,
                         fileUri |-> regUri, sessionId |-> sessionId, images |-> images]
            /\ uPc' = "done"
    /\ UNCHANGED <<uFile, tempPath, clock, extInner, extData, extState, sessionId, images, regUri,
                   fileState, nReq>>
    /\ UNCHANGED <<peer, refVars, chatVars, pageVars>>

\* ---------------------------------------------------------------------------
\* A second invocation of POST of the upload route, running while the first one
\* is at an await: its steps on the temporary directory
\* ---------------------------------------------------------------------------

\* the request arrives and POST runs up to writeFile
PeerRequest ==
    /\ peer.pc = "idle"
    /\ \E name \in FileNames :
          peer' = [pc |-> "write", file |-> name, tempPath |-> TempPathOf(clock, name)]
    /\ UNCHANGED <<uPc, uFile, tempPath, clock, fsFiles, extInner, extData, extState, sessionId,
                   images, regUri, fileState, uResp, nReq>>
    /\ UNCHANGED <<refVars, chatVars, pageVars>>

\* await writeFile(tempPath, buffer)
PeerWriteFile ==
    /\ peer.pc = "write"
    /\ \/ /\ fsFiles' = fsFiles \cup {peer.tempPath}
          /\ peer' = [peer EXCEPT !.pc = "upload"]
       \/ \E partial \in BOOLEAN :
          /\ fsFiles' = CleanupOnError(IF partial THEN fsFiles \cup {peer.tempPath}
                                       ELSE fsFiles, peer.tempPath)
          /\ peer' = [peer EXCEPT !.pc = "done"]
    /\ UNCHANGED <<uPc, uFile, tempPath, clock, extInner, extData, extState, sessionId,
                   images, regUri, fileState, uResp, nReq>>
    /\ UNCHANGED <<refVars, chatVars, pageVars>>

\* await fileManager.uploadFile(tempPath, ...)
PeerUploadFile ==
    /\ peer.pc = "upload"
    /\ \/ /\ peer.tempPath \in fsFiles
          /\ peer' = [peer EXCEPT !.pc = "poll"]
          /\ UNCHANGED fsFiles
       \/ /\ fsFiles' = CleanupOnError(fsFiles, peer.tempPath)
          /\ peer' = [peer EXCEPT !.pc = "done"]
    /\ UNCHANGED <<uPc, uFile, tempPath, clock, extInner, extData, extState, sessionId,
                   images, regUri, fileState, uResp, nReq>>
    /\ UNCHANGED <<refVars, chatVars, pageVars>>

\* the rest of the handler: the polling and the join, then the clean-up of the
\* success path or of the catch block
PeerCleanup ==
    /\ peer.pc = "poll"
    /\ \/ fsFiles' = CleanupOnSuccess(fsFiles, peer.tempPath)
       \/ fsFiles' = CleanupOnError(fsFiles, peer.tempPath)
    /\ peer' = [peer EXCEPT !.pc = "done"]
    /\ UNCHANGED <<uPc, uFile, tempPath, clock, extInner, extData, extState, sessionId,
                   images, regUri, fileState, uResp, nReq>>
    /\ UNCHANGED <<refVars, chatVars, pageVars>>

-----------------------------------------------------------------------------
(* The chat: sendMessage of src/app/components/ChatInterface.tsx, the chat
   route POST of src/unnamed/part_000, and the page state of Home *)

\* the texts a user types: empty, blank, and a question
InputTexts == {<<>>, <<" ">>, <<"q">>}

\* the texts the AI backend answers with
AnswerTexts == {<<"o", "k">>, <<"s", "e", " ">> \o ChMarker2Lower \o ChMarker1}

\* the content of the message shown when the request fails
\* ('Ett fel uppstod. Forsok igen.' with the o's of the source umlauted)
ErrorText == <<"E", "t", "t", " ", "f", "e", "l", " ", "u", "p", "p", "s", "t", "o", "d", ".",
               " ", "F", "o", "r", "s", "o", "k", " ", "i", "g", "e", "n", ".">>

IsSpace(c) == c \in {" ", "\n", "\t"}

\* String.prototype.trim
Trim(t) ==
    LET RECURSIVE dropLeft(_)
        dropLeft(u) == IF u # <<>> /\ IsSpace(Head(u)) THEN dropLeft(Tail(u)) ELSE u
        RECURSIVE dropRight(_)
        dropRight(u) == IF u # <<>> /\ IsSpace(u[Len(u)])
                        THEN dropRight(SubSeq(u, 1, Len(u) - 1)) ELSE u
    IN dropRight(dropLeft(t))

\* ---------------------------------------------------------------------------
\* The chat route: the request body and the system instruction
\* ---------------------------------------------------------------------------

\* the value of a key the JSON body does not have
Undefined == [def |-> FALSE]

\* const { fileUri, message, history = [], images } = await request.json()
Destructure(body, key) ==
    IF key \in DOMAIN body THEN [def |-> TRUE, val |-> body[key]] ELSE Undefined

ChatRequestOf(body) ==
    [fileUri |-> Destructure(body, "fileUri"),
     message |-> Destructure(body, "message"),
     history |-> IF "history" \in DOMAIN body THEN body.history ELSE <<>>,
     images |-> Destructure(body, "images")]

\* !fileUri accepting the empty string
UriMissingOnly(v) == IF v.def THEN FALSE ELSE TRUE

\* !fileUri: the key is missing or its value is the empty string
FalsyUri(v) == IF v.def THEN v.val = "" ELSE TRUE

\* !message
FalsyText(v) == IF v.def THEN v.val = <<>> ELSE TRUE

\* the fixed prose of the instruction, shortened to its headings
BaseInstruction ==
    <<"S", "T", "R", "I", "K", "T", "A", " ", "R", "E", "G", "L", "E", "R", ":", " ", "E",
      "N", "D", "A", "S", "T", " ", "P", "D", "F", "-", "d", "o", "k", "u", "m", "e",
      "n", "t", "e", "t", ".">>

PagesHeading ==
    <<"\n", "\n", "D", "O", "K", "U", "M", "E", "N", "T", "E", "T", "S", " ", "S", "I",
      "D", "O", "R", ":", "\n">>

FormatHeading ==
    <<"\n", "\n", "B", "I", "L", "D", "R", "E", "F", "E", "R", "E", "N", "S", "E", "R",
      ":", "\n", "-", " ", "f", "o", "r", "m", "a", "t", "e", "t", ":", " ">>

ExampleLine ==
    <<"\n", "-", " ", "E", "x", "e", "m", "p", "e", "l", ":", " ", "\"", "[", "S", "e",
      " ", "S", "i", "d", "a", " ", "3", "]", " ", "s", "k", "a", " ", "d", "u", "\"">>

LabelFallback == <<"S", "i", "d", "a", " ", "X">>

\* images.map(img => `- ${img.label} (${img.id})`).join('\n')
ImageList(imgs) ==
    LET RECURSIVE join(_)
        join(k) ==
            IF k > Len(imgs) THEN <<>>
            ELSE (IF k > 1 THEN <<"\n">> ELSE <<>>)
                 \o <<"-", " ">> \o imgs[k].label \o <<" ", "(">> \o imgs[k].id
                 \o <<")">> \o join(k + 1)
    IN join(1)

\* [Se ${images[0]?.label || 'Sida X'}]
MarkerFormat(imgs) ==
    <<"[", "S", "e", " ">>
    \o (IF Len(imgs) > 0 /\ imgs[1].label # <<>> THEN imgs[1].label
        ELSE LabelFallback)
    \o <<"]">>

\* the instruction with the page section whatever the page list
InstructionAlwaysWithPages(imgs) ==
    BaseInstruction \o PagesHeading
    \o (IF imgs.def THEN ImageList(imgs.val) ELSE <<>>) \o FormatHeading
    \o MarkerFormat(IF imgs.def THEN imgs.val ELSE <<>>) \o ExampleLine

\* buildSystemInstruction(images?)
buildSystemInstruction(imgs) ==
    IF ~imgs.def \/ Len(imgs.val) = 0 THEN BaseInstruction
    ELSE BaseInstruction \o PagesHeading \o ImageList(imgs.val) \o FormatHeading
         \o MarkerFormat(imgs.val) \o ExampleLine

\* the groundingMetadata of a backend response: absent, or with groundingChunks
NoGrounding == [present |-> FALSE]

WebChunk(title) == [web |-> TRUE, title |-> title, uri |-> "https://x"]
OtherChunk == [web |-> FALSE]

Groundings ==
    {NoGrounding,
     [present |-> TRUE, groundingChunks |-> <<WebChunk(""), OtherChunk, WebChunk("T")>>]}

\* the citations with a placeholder when there is no grounding metadata
CitationsWithPlaceholder(g) ==
    IF g.present THEN <<>> ELSE <<[title |-> "Source", text |-> "", uri |-> ""]>>

\* the citations the chat route extracts: one per chunk that has "web"
CitationsOf(g) ==
    LET RECURSIVE cites(_)
        cites(cs) ==
            IF cs = <<>> THEN <<>>
            ELSE (IF Head(cs).web
                  THEN <<[title |-> IF Head(cs).title = "" THEN "Source" ELSE Head(cs).title,
                          text |-> "",
                          uri |-> Head(cs).uri]>>
                  ELSE <<>>) \o cites(Tail(cs))
    IN IF g.present THEN cites(g.groundingChunks) ELSE <<>>

FilePart(uri) == [fileData |-> [mimeType |-> "application/pdf", fileUri |-> uri]]
TextPart(t) == [text |-> t]

\* the history with the file attached to the first user message only
ChatHistoryFileOnce(history, fileUri) ==
    [i \in 1..Len(history) |->
        [role |-> history[i].role,
         parts |-> IF history[i].role = "user" /\ i = 1
                   THEN <<FilePart(fileUri), TextPart(history[i].content)>>
                   ELSE <<TextPart(history[i].content)>>]]

\* chatHistory of the chat route: history.map(...)
ChatHistory(history, fileUri) ==
    [i \in 1..Len(history) |->
        [role |-> history[i].role,
         parts |-> IF history[i].role = "user"
                   THEN <<FilePart(fileUri), TextPart(history[i].content)>>
                   ELSE <<TextPart(history[i].content)>>]]

\* what the chat route hands to the AI backend: getGenerativeModel({...,
\* systemInstruction}), startChat({history}) and chat.sendMessage([...])
BackendRequest(body) ==
    LET req == ChatRequestOf(body) IN
    [systemInstruction |-> buildSystemInstruction(req.images),
     history |-> ChatHistory(req.history, req.fileUri.val),
     message |-> <<FilePart(req.fileUri.val), TextPart(req.message.val)>>]

NoBackendRequest == [systemInstruction |-> <<>>, history |-> <<>>, message |-> <<>>]

\* the guard of sendMessage, had it looked at the loading flag only
SendGuardLoadingOnly(in, ld) == ~ld

\* the guard of sendMessage without the loading flag
SendGuardInputOnly(in, ld) == Trim(in) # <<>>

\* sendMessage goes on unless: if (!input.trim() || loading) return
SendGuard(in, ld) == ~(Trim(in) = <<>> \/ ld)

\* useState<number | undefined>(): no page is highlighted
NoPage == -1

\* the calls of onPageReference a turn makes, had the last reference been taken
HighlightSignalLast(refs) == IF Len(refs) > 0 THEN <<refs[Len(refs)]>> ELSE <<>>

\* the calls of onPageReference a successful turn makes:
\* if (pageRefs.length > 0 && onPageReference) onPageReference(pageRefs[0])
HighlightSignal(refs) == IF Len(refs) > 0 THEN <<refs[1]>> ELSE <<>>

\* the catch block, had it signalled the first page with its fallback message
FailureSignalFirstPage(content) == <<1>>

\* the calls of onPageReference a failed turn makes: the catch block logs the
\* fallback message and calls nothing else
FailureSignal(content) == <<>>

\* handlePageReference of Home: setHighlightedPage(pageNumber) for each call
HighlightAfter(page, sig) == IF sig = <<>> THEN page ELSE sig[Len(sig)]

\* the documents a chat can be about: without and with page images
DocHandles ==
    {[success |-> TRUE, fileName |-> "a.pdf", fileUri |-> "files/u1", sessionId |-> "",
      images |-> <<>>],
     [success |-> TRUE, fileName |-> "a.pdf", fileUri |-> "files/u2", sessionId |-> "s1",
      images |-> ConvertImages([session_id |-> "s1",
                                images |-> <<ServiceImage(1), ServiceImage(2)>>])]}

\* useState<UploadResponse | null>(null): no document
NoDoc == [success |-> FALSE]

\* the state of a PDFUploader that has just been mounted, or is not mounted
UploaderFresh ==
    /\ uploading = FALSE
    /\ progress = ""
    /\ uError = ""

\* Home shows the chat of an uploaded document; nothing has been typed or sent
ChatInit ==
    /\ uploadData \in DocHandles
    /\ highlightedPage = NoPage
    /\ signals = <<>>
    /\ messages = <<>>
    /\ input = <<>>
    /\ loading = FALSE
    /\ calls = <<>>
    /\ lastTrigger = "none"
    /\ inst = 0
    /\ UploaderFresh
    /\ uploads = <<>>

\* Home renders ChatInterface: {!uploadData ? <PDFUploader/> : ... <ChatInterface/>}
ChatMounted == uploadData # NoDoc

\* the history of the request, had it been the log with the new user message
HistoryWithUserMessage(log, userMessage) == Append(log, userMessage)

\* history: messages in the body of the request: the messages of the render that
\* sendMessage belongs to, without the user message it has just queued
SentHistory(log, userMessage) == log

\* sendMessage's first update, had the user message been left out
KeepMessages(prev, userMessage) == prev

\* setMessages(prev => [...prev, userMessage])
AppendUserMessage(prev, userMessage) == Append(prev, userMessage)

\* the try block, had the answer not been put into the log
DropAssistantMessage(prev, assistantMessage) == prev

\* setMessages(prev => [...prev, assistantMessage])
AppendAssistantMessage(prev, assistantMessage) == Append(prev, assistantMessage)

\* the catch block, had it put the error message in the place of the last entry
ReplaceLastByError(prev) ==
    IF prev = <<>> THEN <<[role |-> "model", content |-> ErrorText]>>
    ELSE [prev EXCEPT ![Len(prev)] = [role |-> "model", content |-> ErrorText]]

\* the catch block: setMessages(prev => [...prev, {role: 'model', content: 'Ett fel ...'}])
AppendErrorMessage(prev) == Append(prev, [role |-> "model", content |-> ErrorText])

\* loading after the call, had setLoading(false) been the last statement of try
LoadingAfterTryOnly(failed) == failed

\* finally { setLoading(false) }
LoadingAfterCall(failed) == FALSE

\* onChange of the textarea: setInput(e.target.value).  The model lets the user
\* type in every state and does not rely on disabled={loading}.
TypeInput ==
    /\ ChatMounted
    /\ \E t \in InputTexts : t # input /\ input' = t
    /\ UNCHANGED <<uploadData, highlightedPage, signals, messages, loading, calls, lastTrigger>>
    /\ UNCHANGED <<refVars, uploadVars, pageVars>>

\* sendMessage, called by the button or by Enter, up to its fetch.  Its state
\* updates are committed before the next event is handled, so input, loading and
\* messages are the values of the render the handler belongs to.
SendMessage ==
    /\ ChatMounted
    /\ Len(calls) < MaxSends
    /\ IF SendGuard(input, loading)
       THEN /\ messages' = AppendUserMessage(messages, [role |-> "user", content |-> input])
            /\ input' = <<>>
            /\ loading' = TRUE
            /\ calls' = Append(calls,
                   [st |-> "fetching",
                    inst |-> inst,
                    body |-> [fileUri |-> uploadData.fileUri, message |-> input,
                              history |-> SentHistory(messages,
                                              [role |-> "user", content |-> input]),
                              images |-> uploadData.images],
                    backend |-> NoBackendRequest,
                    grounding |-> NoGrounding,
                    resp |-> [status |-> 0]])
            /\ lastTrigger' = "sent"
       ELSE /\ lastTrigger' = "ignored"
            /\ UNCHANGED <<messages, input, loading, calls>>
    /\ UNCHANGED <<uploadData, highlightedPage, signals>>
    /\ UNCHANGED <<refVars, uploadVars, pageVars>>

\* the chat route handles the request of call c
ChatPOST(c) ==
    /\ calls[c].st = "fetching"
    /\ LET body == calls[c].body
           req == ChatRequestOf(body)
           rejected == FalsyUri(req.fileUri) \/ FalsyText(req.message)
       IN
       \/ \* if (!fileUri || !message)
          /\ rejected
          /\ calls' = [calls EXCEPT ![c].st = "responded",
                                    ![c].resp = [status |-> 400,
                                                 error |-> "Missing fileUri or message"]]
       \/ \* the AI backend answers
          /\ ~rejected
          /\ \E a \in AnswerTexts, g \in Groundings :
                calls' = [calls EXCEPT ![c].st = "responded",
                                       ![c].backend = BackendRequest(body),
                                       ![c].grounding = g,
                                       ![c].resp = [status |-> 200, answer |-> a,
                                                    citations |-> CitationsOf(g)]]
       \/ \* the AI backend throws
          /\ ~rejected
          /\ calls' = [calls EXCEPT ![c].st = "responded",
                                    ![c].backend = BackendRequest(body),
                                    ![c].resp = [status |-> 500,
                                                 error |-> "Failed to process chat"]]
    /\ UNCHANGED <<uploadData, highlightedPage, signals, messages, input, loading, lastTrigger>>
    /\ UNCHANGED <<refVars, uploadVars, pageVars>>

\* onClick of a button with the page number of another button of the message
ClickArgumentFirst(ns, k) ==
    ns[CHOOSE j \in DOMAIN ns : ns[j].kind = "button"
                                 /\ \A i \in 1..(j - 1) : ns[i].kind # "button"].pageNumber

\* onClick={() => onPageClick(pageNumber)} of the button that is part k
ClickArgument(ns, k) == ns[k].pageNumber

\* a button of a rendered model message is activated: handlePageClick calls
\* onPageReference, Home's handlePageReference
ClickPageToken ==
    /\ ChatMounted
    /\ Len(signals) < MaxSignals
    /\ \E i \in DOMAIN messages :
          /\ messages[i].role = "model"
          /\ LET ns == formatMessageContent(messages[i].content) IN
             \E k \in DOMAIN ns :
                /\ ns[k].kind = "button"
                /\ clicked' = [msg |-> i, part |-> k]
                /\ highlightedPage' = HighlightAfter(highlightedPage, <<ClickArgument(ns, k)>>)
                /\ signals' = signals \o <<ClickArgument(ns, k)>>
    /\ UNCHANGED <<text, parsed, pageRefs, formatted, nodes>>
    /\ UNCHANGED <<uploadData, messages, input, loading, calls, lastTrigger>>
    /\ UNCHANGED <<uploadVars, pageVars>>

\* fetch rejects: the request or its response is lost
FetchFails(c) ==
    /\ calls[c].st = "fetching"
    /\ calls' = [calls EXCEPT ![c].st = "rejected"]
    /\ UNCHANGED <<uploadData, highlightedPage, signals, messages, input, loading, lastTrigger>>
    /\ UNCHANGED <<refVars, uploadVars, pageVars>>

\* sendMessage of call c after its fetch has settled: try, catch, finally.  The
\* state updates of a ChatInterface that is no longer mounted have no effect;
\* onPageReference is Home's handler and is called all the same.
ReceiveResponse(c) ==
    /\ calls[c].st \in {"responded", "rejected"}
    /\ LET mounted == ChatMounted /\ calls[c].inst = inst
           ok == calls[c].st = "responded" /\ calls[c].resp.status = 200
       IN IF ok
          THEN LET data == calls[c].resp
                   refs == parsePageReferences(data.answer)
               IN /\ messages' = IF mounted
                                 THEN AppendAssistantMessage(messages,
                                             [role |-> "model", content |-> data.answer,
                                              citations |-> data.citations])
                                 ELSE messages
                  /\ highlightedPage' = HighlightAfter(highlightedPage, HighlightSignal(refs))
                  /\ signals' = signals \o HighlightSignal(refs)
                  /\ loading' = IF mounted THEN LoadingAfterCall(FALSE) ELSE loading
          ELSE /\ messages' = IF mounted THEN AppendErrorMessage(messages) ELSE messages
               /\ loading' = IF mounted THEN LoadingAfterCall(TRUE) ELSE loading
               /\ highlightedPage' = HighlightAfter(highlightedPage, FailureSignal(ErrorText))
               /\ signals' = signals \o FailureSignal(ErrorText)
    /\ calls' = [calls EXCEPT ![c].st = "done"]
    /\ UNCHANGED <<uploadData, input, lastTrigger>>
    /\ UNCHANGED <<refVars, uploadVars, pageVars>>

-----------------------------------------------------------------------------
(* The page: PDFUploader.handleUpload of src/unnamed/part_001 and Home's
   handleUploadComplete and resetChat of src/unnamed/part_000 *)

\* what the user picks in the file input: nothing, a file that is no PDF, a PDF
FileChoices == {"", "notes.txt", "a.pdf"}

IsPdf(file) == file = "a.pdf"

NoUploadResp == [status |-> 0]

\* the outcomes of fetch('/api/upload-pdf'): the route's success response for the
\* uploaded file, its error response, or a rejected fetch (status 0)
UploadOutcomes(file) ==
    {[status |-> 200, body |-> d] : d \in {h \in DocHandles : h.fileName = file}}
        \cup {[status |-> 500, body |-> [error |-> "Failed to upload PDF"]]}
        \cup {NoUploadResp}

\* uploadResponse.ok of a response that has arrived
ResponseOk(resp) == resp.status \in 200..299

\* the text of the error handleUpload catches: data.error || 'Kunde inte ladda
\* upp PDF' of an error response, the message of the TypeError of a rejected fetch
UploadErrorText(resp) ==
    IF resp.status = 0 THEN "Failed to fetch"
    ELSE IF "error" \in DOMAIN resp.body /\ resp.body.error # "" THEN resp.body.error
    ELSE "Kunde inte ladda upp PDF"

\* the highlight after handleUploadComplete, had it left the highlight alone
HighlightKept(page) == page

\* handleUploadComplete: setHighlightedPage(undefined)
HighlightAfterUpload(page) == NoPage

\* The value Home's handleUploadComplete(response: UploadResponse) is called
\* with.  The PDFUploader of src/unnamed/part_001 is of the revision whose callback
\* takes (fileUri, fileName); the revision that calls the handler of this Home is
\* not among the sources.  The handler is given the body of the success response,
\* the document handle of spec 3 and 6.
UploadCompleteArgument(body) == body

\* Home before any upload: the uploader is shown
HomeInit ==
    /\ uploadData = NoDoc
    /\ highlightedPage = NoPage
    /\ signals = <<>>
    /\ messages = <<>>
    /\ input = <<>>
    /\ loading = FALSE
    /\ calls = <<>>
    /\ lastTrigger = "none"
    /\ inst = 0
    /\ UploaderFresh
    /\ uploads = <<>>

\* onChange of the file input, handleUpload up to its fetch.  The input is
\* disabled while uploading, and is there only while Home shows the uploader.
SelectFile ==
    /\ ~ChatMounted
    /\ ~uploading
    /\ \E file \in FileChoices :
          IF file = ""
          THEN \* if (!file) return
               UNCHANGED <<uploading, progress, uError, uploads>>
          ELSE IF ~IsPdf(file)
          THEN /\ uError' = "Endast PDF-filer tillatna"
               /\ UNCHANGED <<uploading, progress, uploads>>
          ELSE /\ Len(uploads) < MaxUploads
               /\ uploading' = TRUE
               /\ uError' = ""
               /\ progress' = "Laddar upp och indexerar PDF..."
               /\ uploads' = Append(uploads, [st |-> "fetching", inst |-> inst,
                                              file |-> file, resp |-> NoUploadResp])
    /\ UNCHANGED inst
    /\ UNCHANGED <<refVars, uploadVars, chatVars>>

\* handleUpload of upload u after its fetch has settled: try, catch, finally.  A
\* success starts the timer of 500 ms.  The state updates of a PDFUploader that is
\* no longer mounted have no effect.
UploadSettles(u) ==
    /\ uploads[u].st = "fetching"
    /\ \E resp \in UploadOutcomes(uploads[u].file) :
          LET mounted == ~ChatMounted /\ uploads[u].inst = inst
          IN IF resp.status # 0 /\ ResponseOk(resp)
             THEN /\ uploads' = [uploads EXCEPT ![u].st = "timer", ![u].resp = resp]
                  /\ progress' = IF mounted THEN "Klar!" ELSE progress
                  /\ uploading' = IF mounted THEN FALSE ELSE uploading
                  /\ UNCHANGED uError
             ELSE /\ uploads' = [uploads EXCEPT ![u].st = "failed", ![u].resp = resp]
                  /\ uError' = IF mounted THEN UploadErrorText(resp) ELSE uError
                  /\ progress' = IF mounted THEN "" ELSE progress
                  /\ uploading' = IF mounted THEN FALSE ELSE uploading
    /\ UNCHANGED inst
    /\ UNCHANGED <<refVars, uploadVars, chatVars>>

\* the timer of upload u fires: onUploadComplete, that is handleUploadComplete of
\* Home.  If Home showed the uploader it now shows a new ChatInterface; a
\* ChatInterface that is shown already stays mounted and keeps its state.
UploadComplete(u) ==
    /\ uploads[u].st = "timer"
    /\ uploads' = [uploads EXCEPT ![u].st = "completed"]
    /\ uploadData' = UploadCompleteArgument(uploads[u].resp.body)
    /\ highlightedPage' = HighlightAfterUpload(highlightedPage)
    /\ IF ChatMounted
       THEN UNCHANGED <<inst, uploading, progress, uError>>
       ELSE /\ inst' = inst + 1
            /\ uploading' = FALSE
            /\ progress' = ""
            /\ uError' = ""
    /\ UNCHANGED <<signals, messages, input, loading, calls, lastTrigger>>
    /\ UNCHANGED <<refVars, uploadVars>>

\* resetChat: Home shows a new PDFUploader; the ChatInterface and its state are gone
ResetChat ==
    /\ ChatMounted
    /\ uploadData' = NoDoc
    /\ highlightedPage' = NoPage
    /\ inst' = inst + 1
    /\ messages' = <<>>
    /\ input' = <<>>
    /\ loading' = FALSE
    /\ lastTrigger' = "none"
    /\ UNCHANGED <<signals, calls, uploading, progress, uError, uploads>>
    /\ UNCHANGED <<refVars, uploadVars>>

-----------------------------------------------------------------------------
(* Specifications *)

NextRefs == ParseRefs \/ FormatContent

\* the extractor and the rendering applied to every text
InitRefs == RefsInit /\ UploadInit /\ ChatInit

SpecRefs == InitRefs /\ [][NextRefs]_vars

NextUpload ==
    \/ Tick
    \/ UploadRequest
    \/ WriteFile
    \/ UploadFile
    \/ GetFile
    \/ Sleep
    \/ ExtractionSucceeds
    \/ ExtractionFails
    \/ JoinAndRespond

\* the upload route
InitUpload == RefsIdle /\ UploadInit /\ ChatInit

SpecUpload == InitUpload /\ [][NextUpload]_vars

\* the upload route when every pending await is eventually resumed: the event loop
\* runs each continuation whose promise has settled, and every request to the AI
\* backend, to the file system and to the extraction service is eventually answered
FairSpecUpload ==
    /\ InitUpload
    /\ [][NextUpload]_vars
    /\ WF_vars(WriteFile)
    /\ WF_vars(UploadFile)
    /\ WF_vars(GetFile)
    /\ WF_vars(Sleep)
    /\ WF_vars(ExtractionSucceeds \/ ExtractionFails)
    /\ WF_vars(JoinAndRespond)

NextChat ==
    \/ TypeInput
    \/ SendMessage
    \/ \E c \in DOMAIN calls : ChatPOST(c)
    \/ \E c \in DOMAIN calls : FetchFails(c)
    \/ \E c \in DOMAIN calls : ReceiveResponse(c)

Init == RefsIdle /\ UploadInit /\ ChatInit

\* the chat of one uploaded document
Spec == Init /\ [][NextChat]_vars

\* what a step of ReceiveResponse, and of no other action, does to calls; it is
\* possible exactly when ReceiveResponse(c) is enabled for some c
HandlesResponse ==
    \E c \in DOMAIN calls :
        /\ calls[c].st \in {"responded", "rejected"}
        /\ calls' = [calls EXCEPT ![c].st = "done"]

\* the chat when every request is eventually answered or lost, and the
\* continuation of sendMessage runs once its fetch has settled (the event loop
\* resumes an async function whose awaited promise has settled)
FairSpec ==
    /\ Init
    /\ [][NextChat]_vars
    /\ WF_vars(\E c \in DOMAIN calls : ChatPOST(c) \/ FetchFails(c))
    /\ WF_calls(HandlesResponse)

\* in the specification of the page the user types one question, and sends
\* at most MaxPageSends messages
PageTypeInput == input' = <<"q">> /\ TypeInput

PageSendMessage == Len(calls) < MaxPageSends /\ SendMessage

NextPage ==
    \/ SelectFile
    \/ \E u \in DOMAIN uploads : UploadSettles(u)
    \/ \E u \in DOMAIN uploads : UploadComplete(u)
    \/ ResetChat
    \/ PageTypeInput
    \/ PageSendMessage
    \/ \E c \in DOMAIN calls : ChatPOST(c)
    \/ \E c \in DOMAIN calls : FetchFails(c)
    \/ \E c \in DOMAIN calls : ReceiveResponse(c)

InitPage == RefsIdle /\ UploadInit /\ HomeInit

\* the page: uploads, the chat of each uploaded document, and resets
SpecPage == InitPage /\ [][NextPage]_vars

NextClick ==
    \/ TypeInput
    \/ PageSendMessage
    \/ \E c \in DOMAIN calls : ChatPOST(c)
    \/ \E c \in DOMAIN calls : FetchFails(c)
    \/ \E c \in DOMAIN calls : ReceiveResponse(c)
    \/ ClickPageToken

InitClick == RefsIdle /\ UploadInit /\ ChatInit

\* the chat of one uploaded document with the buttons of its rendered messages
SpecClick == InitClick /\ [][NextClick]_vars

NextConcurrent ==
    \/ NextUpload
    \/ PeerRequest
    \/ PeerWriteFile
    \/ PeerUploadFile
    \/ PeerCleanup

InitConcurrent == RefsIdle /\ UploadInit /\ ChatInit

\* two invocations of the upload route that run at the same time
SpecConcurrent == InitConcurrent /\ [][NextConcurrent]_vars

\* ---------------------------------------------------------------------------
\* The chat route on its own: any client may post any JSON body
\* ---------------------------------------------------------------------------

LabelBild1 == <<"B", "i", "l", "d", " ", "1">>

\* an ExtractedImage of page p with the given label
PageImage(p, label) ==
    [ConvertImages([session_id |-> "s1", images |-> <<ServiceImage(p)>>])[1]
        EXCEPT !.label = label]

RouteImageLists ==
    {<<>>,
     <<PageImage(1, LabelSida(1))>>,
     <<PageImage(1, LabelSida(1)), PageImage(2, LabelSida(2))>>,
     <<PageImage(2, LabelSida(2)), PageImage(1, LabelSida(1))>>,
     <<PageImage(1, LabelBild1)>>,
     <<PageImage(1, LabelBild1), PageImage(2, LabelSida(2))>>,
     <<PageImage(1, <<>>)>>}

RouteHistories ==
    {<<>>, <<[role |-> "user", content |-> <<"q">>],
             [role |-> "model", content |-> <<"o", "k">>, citations |-> <<>>]>>}

\* a JSON object without keys, and the choices of one key: missing, or one of vals
NoKeys == [k \in {} |-> k]
KeyChoices(key, vals) == {NoKeys} \cup {key :> v : v \in vals}

RouteBodies ==
    {f @@ m @@ h @@ i :
        f \in KeyChoices("fileUri", {"", "files/u1"}),
        m \in {"message" :> t : t \in {<<>>, <<"q">>}},
        h \in KeyChoices("history", RouteHistories),
        i \in KeyChoices("images", RouteImageLists)}

\* a request reaches POST of the chat route
PostChat ==
    /\ Len(calls) < MaxPosts
    /\ \E body \in RouteBodies :
          calls' = Append(calls,
                      [st |-> "fetching",
                       inst |-> inst,
                       body |-> body,
                       backend |-> NoBackendRequest,
                       grounding |-> NoGrounding,
                       resp |-> [status |-> 0]])
    /\ UNCHANGED <<uploadData, highlightedPage, signals, messages, input, loading, lastTrigger>>
    /\ UNCHANGED <<refVars, uploadVars, pageVars>>

NextRoute ==
    \/ PostChat
    \/ \E c \in DOMAIN calls : ChatPOST(c)

InitRoute == RefsIdle /\ UploadInit /\ HomeInit

\* the chat route answering the requests of any client
SpecRoute == InitRoute /\ [][NextRoute]_vars

-----------------------------------------------------------------------------
(* C1 - C4: the conversation *)

\* the calls of sendMessage whose continuation has not yet run
InFlight == {c \in DOMAIN calls : calls[c].st # "done"}

\* the calls that have ended, with a successful and with a failed backend request
Succeeded == {c \in DOMAIN calls : calls[c].st = "done" /\ calls[c].resp.status = 200}
Failed == {c \in DOMAIN calls : calls[c].st = "done" /\ calls[c].resp.status # 200}

\* C1: the conversation history grows by exactly 2 entries for a call whose
\* backend request succeeds (user + assistant) and by exactly 1 entry (the user
\* turn only) for a call whose backend request fails (a call still in flight
\* has added its user turn).
C1_HistoryGrowsByTwoOrOne ==
    Len(messages) = 2 * Cardinality(Succeeded) + Cardinality(Failed) + Cardinality(InFlight)

\* C2: after a turn whose backend request failed, the fallback message shown to
\* the user never appears in the history that a later sendMessage sends to the
\* backend.
C2_FallbackNeverSentAsHistory ==
    \A c \in DOMAIN calls :
        \A i \in DOMAIN calls[c].body.history :
            calls[c].body.history[i].content # ErrorText

HasFileOf(parts, uri) ==
    \E k \in DOMAIN parts :
        /\ "fileData" \in DOMAIN parts[k]
        /\ parts[k].fileData.fileUri = uri

HasTextOf(parts, t) ==
    \E k \in DOMAIN parts : "text" \in DOMAIN parts[k] /\ parts[k].text = t

IsPlainText(parts) ==
    \A k \in DOMAIN parts : DOMAIN parts[k] = {"text"}

\* the calls for which the chat route has made a request to the AI backend
AskedBackend == {c \in DOMAIN calls : calls[c].backend # NoBackendRequest}

\* C3: in every request the chat handler makes to the AI backend, every user
\* turn (each prior user turn of the history, whatever its position, and the
\* new message) carries an attachment of the conversation's document reference,
\* and every prior assistant turn is sent as plain text with no attachment.
C3_EveryUserTurnCarriesDocument ==
    \A c \in AskedBackend :
        LET sent == calls[c].backend
            hist == calls[c].body.history
            uri == uploadData.fileUri
        IN /\ Len(sent.history) = Len(hist)
           /\ \A i \in DOMAIN hist :
                 /\ sent.history[i].role = hist[i].role
                 /\ HasTextOf(sent.history[i].parts, hist[i].content)
                 /\ hist[i].role = "user" => HasFileOf(sent.history[i].parts, uri)
                 /\ hist[i].role = "model" => IsPlainText(sent.history[i].parts)
           /\ HasFileOf(sent.message, uri)
           /\ HasTextOf(sent.message, calls[c].body.message)

\* the backend has been asked with a history of two user turns and two
\* assistant turns
C3_Witness ==
    \E c \in AskedBackend :
        /\ Len(calls[c].body.history) = 4
        /\ calls[c].body.history[3].role = "user"
        /\ calls[c].body.history[4].role = "model"

-----------------------------------------------------------------------------
(* C5 - C9: the upload route *)

\* the handler has returned its response
Returned == uPc = "done"

\* registration with the AI backend succeeded: uploadFile issued a reference and
\* the last polled state is neither PROCESSING nor FAILED
RegistrationSucceeded ==
    /\ regUri \in Uris
    /\ fileState \in {"ACTIVE", "STATE_UNSPECIFIED"}

\* C5: if image extraction fails while registration with the AI backend
\* succeeds, the upload still returns a success response with images = [],
\* sessionId = "" and the document reference issued by the AI backend.
C5_ExtractionFailureIsNotFatal ==
    (Returned /\ extInner = "rejected" /\ RegistrationSucceeded)
        => /\ uResp.status = 200
           /\ uResp.success = TRUE
           /\ uResp.images = <<>>
           /\ uResp.sessionId = ""
           /\ uResp.fileUri = regUri

\* the handler has returned after a failed extraction and a successful registration
C5_Witness ==
    /\ Returned
    /\ extInner = "rejected"
    /\ RegistrationSucceeded
    /\ uResp.status = 200

C6_WitnessWriteFailure ==
    /\ Returned
    /\ tempPath # NoPath
    /\ regUri = ""
    /\ extInner = "none"
    /\ uResp.status = 500

\* C7: the upload handler never returns a response while either of its two
\* concurrent operations, AI registration with polling or image extraction, is
\* still running, including when registration fails fatally.
C7_ReturnsOnlyWhenBothSettled ==
    Returned => extInner # "pending"

\* C8: the registration poll loop is bounded: even if the AI backend keeps
\* reporting PROCESSING, the handler eventually returns a response.
C8_PollLoopTerminates ==
    (uPc = "poll") ~> Returned

\* C9: if the AI backend reports the terminal state FAILED for the registered
\* file, the handler returns an error response and never a success response
\* carrying a document reference, whatever the outcome of image extraction.
C9_FailedStateAbortsUpload ==
    (fileState = "FAILED") => (Returned /\ uResp.status = 500)

\* FAILED was reported after image extraction had succeeded with images
C9_Witness ==
    /\ fileState = "FAILED"
    /\ extInner = "resolved"
    /\ images # <<>>
    /\ Returned
    /\ uResp.status = 500

-----------------------------------------------------------------------------
(* C10 *)

\* a whole string is a well-formed marker: "[Se Sida " in any letter case,
\* one or more digits, "]"
IsMarker(s) ==
    /\ Len(s) >= 11
    /\ s[1] = "["
    /\ s[Len(s)] = "]"
    /\ \A k \in 2..9 : Canon(s[k]) = <<"[", "s", "e", " ", "s", "i", "d", "a", " ">>[k]
    /\ \A k \in 10..(Len(s) - 1) : s[k] \in Digits

RECURSIVE Pow10(_)
Pow10(n) == IF n = 0 THEN 1 ELSE 10 * Pow10(n - 1)

RECURSIVE SumTo(_, _)
SumTo(f, n) == IF n = 0 THEN 0 ELSE f[n] + SumTo(f, n - 1)

\* the page number a marker names: the decimal value of its digits
MarkerNumber(s) ==
    LET d == SubSeq(s, 10, Len(s) - 1)
    IN SumTo([k \in 1..Len(d) |-> DigitVal(d[k]) * Pow10(Len(d) - k)], Len(d))

\* the page numbers of the markers of t, by position of the marker
MarkerNumbers(t) ==
    LET RECURSIVE from(_)
        from(i) ==
            IF i > Len(t) THEN <<>>
            ELSE LET ends == {j \in (i + 10)..Len(t) : IsMarker(SubSeq(t, i, j))}
                 IN (IF ends = {} THEN <<>>
                     ELSE <<MarkerNumber(SubSeq(t, i, CHOOSE j \in ends : TRUE))>>)
                    \o from(i + 1)
    IN from(1)

\* C10: for any text, parsePageReferences returns exactly the page numbers of
\* the well-formed markers "[Se Sida N]", in left-to-right order of occurrence,
\* duplicates kept, and the empty sequence when the text has no marker.
C10_ExtractorReturnsMarkerNumbers ==
    parsed => pageRefs = MarkerNumbers(text)

\* a text with two markers of the same page and one malformed marker has been parsed
C10_Witness ==
    /\ parsed
    /\ text = ChMarker1 \o ChNoDigit \o ChMarker1
    /\ pageRefs = <<1, 1>>

\* a marker with a leading zero, written in pieces, has been parsed
C10_WitnessLeadingZero ==
    /\ parsed
    /\ text = ChPrefix \o ChDigits07 \o ChClose
    /\ pageRefs = <<7>>

-----------------------------------------------------------------------------
(* C11 *)

\* t with every well-formed marker taken out
StripMarkers(t) ==
    LET RECURSIVE from(_)
        from(i) ==
            IF i > Len(t) THEN <<>>
            ELSE LET ends == {j \in (i + 10)..Len(t) : IsMarker(SubSeq(t, i, j))}
                 IN IF ends = {} THEN <<t[i]>> \o from(i + 1)
                    ELSE from((CHOOSE j \in ends : TRUE) + 1)
    IN from(1)

\* the texts of the spans of a rendering, concatenated in order
SpanText(ns) ==
    LET RECURSIVE cat(_)
        cat(k) == IF k > Len(ns) THEN <<>>
                  ELSE (IF ns[k].kind = "span" THEN ns[k].text ELSE <<>>) \o cat(k + 1)
    IN cat(1)

\* C11: for any text, concatenating in order the plain-text spans that
\* formatMessageContent produces (skipping the marker tokens) yields the
\* original text with every marker removed and every other character,
\* whitespace included, unchanged.
C11_SpansAreTextWithoutMarkers ==
    formatted => SpanText(nodes) = StripMarkers(text)

\* a text with a lower-case marker between plain text and a malformed marker
\* has been rendered
C11_Witness ==
    /\ formatted
    /\ text = ChPlain \o ChMarker2Lower \o ChNoDigit
    /\ nodes = <<[kind |-> "span", text |-> ChPlain],
                 [kind |-> "button", pageNumber |-> 2],
                 [kind |-> "span", text |-> ChNoDigit]>>

-----------------------------------------------------------------------------
(* C12 *)

\* the step in which sendMessage of call c handles a success response
ReceivesSuccess(c) ==
    /\ c \in DOMAIN calls'
    /\ calls[c].st = "responded"
    /\ calls[c].resp.status = 200
    /\ calls'[c].st = "done"

\* C12: when a successful assistant turn is received, the highlighted page
\* becomes the first page number referenced in its text if it references any
\* page (and that page is signalled); otherwise the highlighted page keeps its
\* previous value and no highlight signal is emitted.
C12_HighlightIsFirstReference ==
    [][\A c \in DOMAIN calls :
          ReceivesSuccess(c) =>
             LET refs == MarkerNumbers(calls[c].resp.answer)
             IN IF refs # <<>>
                THEN /\ highlightedPage' = refs[1]
                     /\ signals' = Append(signals, refs[1])
                ELSE /\ highlightedPage' = highlightedPage
                     /\ signals' = signals]_vars

\* a turn that references pages 2 and 1 has highlighted page 2, and a later
\* turn without references has left the highlight as it was
C12_Witness ==
    /\ Len(calls) >= 2
    /\ calls[1].st = "done" /\ calls[1].resp.status = 200
    /\ MarkerNumbers(calls[1].resp.answer) = <<2, 1>>
    /\ calls[2].st = "done" /\ calls[2].resp.status = 200
    /\ MarkerNumbers(calls[2].resp.answer) = <<>>
    /\ highlightedPage = 2
    /\ signals = <<2>>

-----------------------------------------------------------------------------
(* C13 *)

\* the step in which the timer of upload u fires and handleUploadComplete runs
Completes(u) ==
    /\ uploads[u].st = "timer"
    /\ uploads'[u].st = "completed"

\* C13: whenever a new document upload completes, the highlighted page is
\* reset to none, whatever its previous value.
C13_UploadResetsHighlight ==
    [][\A u \in DOMAIN uploads : Completes(u) => highlightedPage' = NoPage]_vars

\* a second upload has completed while the chat of the first showed a
\* highlighted page: an answer had signalled a page, no reset has happened
\* (Home has switched to the chat once), and the highlight is none again
C13_Witness ==
    /\ Len(uploads) = 2
    /\ uploads[1].st = "completed"
    /\ uploads[2].st = "completed"
    /\ inst = 1
    /\ signals # <<>>
    /\ highlightedPage = NoPage

-----------------------------------------------------------------------------
(* C14 *)

\* C14: in a session whose ingestion produced no page images (extraction
\* failed), no assistant turn ever causes a highlight signal: the highlighted
\* page stays none for the whole session, whatever text the backend returns.
C14_NoImagesNoHighlight ==
    (uploadData.images = <<>>) => (signals = <<>> /\ highlightedPage = NoPage)

-----------------------------------------------------------------------------
(* C15 *)

\* C15: in every success response of the upload handler with a non-empty
\* image list, the images are sorted by pageNumber and their page numbers are
\* exactly 1..len(images), with no gap and no duplicate, whatever the
\* extraction service returned.
C15_ImagesSortedAndContiguous ==
    (Returned /\ uResp.status = 200 /\ uResp.images # <<>>)
        => \A k \in DOMAIN uResp.images : uResp.images[k].pageNumber = k

-----------------------------------------------------------------------------
(* C16 *)

\* the calls of sendMessage whose turns are in the log of the conversation shown
CallsOfConversation == {c \in DOMAIN calls : ChatMounted /\ calls[c].inst = inst}

\* C16: a conversation is grounded in one document for its whole lifetime: a
\* history accumulated under one document reference is never sent to the
\* backend together with a different document reference (the calls of one
\* conversation all carry the same reference), and a newly uploaded document
\* always starts from an empty history (the turns of the conversation shown
\* were all made under the document shown).
C16_OneDocumentPerConversation ==
    /\ \A c, d \in DOMAIN calls :
          (d < c /\ calls[d].inst = calls[c].inst)
              => calls[d].body.fileUri = calls[c].body.fileUri
    /\ \A c \in CallsOfConversation : calls[c].body.fileUri = uploadData.fileUri

-----------------------------------------------------------------------------
(* C17 *)

\* the request of a call has failed (an error response, or fetch rejected) and
\* sendMessage has not yet handled the failure
TurnFailing ==
    \E c \in DOMAIN calls :
        \/ calls[c].st = "rejected"
        \/ calls[c].st = "responded" /\ calls[c].resp.status # 200

\* the last call has ended in a failure
LastTurnFailed ==
    /\ calls # <<>>
    /\ calls[Len(calls)].st = "done"
    /\ calls[Len(calls)].resp.status # 200

\* the step of a sendMessage that passed its guard
Accepted == Len(calls') = Len(calls) + 1

\* C17: after a turn fails with a backend error the conversation remains
\* usable: the in-flight (loading) state is eventually cleared, and the next
\* non-empty message is accepted (it passes the guard of sendMessage) and sent
\* to the backend (the accepted call issues a request with that message).
C17_FailedTurnLeavesChatUsable ==
    /\ TurnFailing ~> ~loading
    /\ []((LastTurnFailed /\ Trim(input) # <<>>) => SendGuard(input, loading))
    /\ [][Accepted => /\ calls'[Len(calls')].st = "fetching"
                      /\ calls'[Len(calls')].body.message = input]_vars

\* after a failed turn the next message has been sent, and the chat route has
\* handed it to the backend
C17_Witness ==
    /\ Len(calls) >= 2
    /\ calls[1].st = "done"
    /\ calls[1].resp.status # 200
    /\ 2 \in AskedBackend
    /\ ~TurnFailing

-----------------------------------------------------------------------------
(* C18, C19 *)

\* the place of the user turn of call c in the log: right after the history
\* the call was sent with
UserTurnAt(c) == Len(calls[c].body.history) + 1

\* C18: in every sendMessage call the user turn is appended to the
\* conversation log before the request for the corresponding assistant turn is
\* issued (from the moment the request exists the log holds the user turn), and
\* the assistant turn (or its substitute) is appended after that user turn and
\* before any later user turn (it is the next entry of the log, and the
\* history of every later call holds both).
C18_UserTurnBeforeRequestThenAssistantTurn ==
    \A c \in DOMAIN calls :
        LET k == UserTurnAt(c)
        IN /\ Len(messages) >= k
           /\ messages[k] = [role |-> "user", content |-> calls[c].body.message]
           /\ calls[c].st = "done"
                 => /\ Len(messages) >= k + 1
                    /\ messages[k + 1].role = "model"
           /\ \A d \in DOMAIN calls :
                 d > c => /\ calls[c].st = "done"
                          /\ UserTurnAt(d) > k + 1
                          /\ SubSeq(calls[d].body.history, 1, k + 1)
                                 = SubSeq(messages, 1, k + 1)

\* a failed call and a successful call have both ended, and a third request
\* is in flight
C18_Witness ==
    /\ Len(calls) = 3
    /\ calls[1].st = "done" /\ calls[1].resp.status # 200
    /\ calls[2].st = "done" /\ calls[2].resp.status = 200
    /\ calls[3].st = "fetching"
    /\ Len(messages) = 5

IsPrefix(s, t) == Len(s) <= Len(t) /\ SubSeq(t, 1, Len(s)) = s

\* C19: the conversation log is append-only: for the lifetime of one
\* conversation, the log in any earlier state is a prefix of the log in every
\* later state; no entry is ever removed, reordered or modified, also on failed
\* turns.
C19_LogIsAppendOnly ==
    [][IsPrefix(messages, messages')]_vars

\* a failed turn has been logged after a complete earlier turn
C19_Witness ==
    /\ Len(calls) >= 2
    /\ calls[1].st = "done" /\ calls[1].resp.status = 200
    /\ calls[2].st = "done" /\ calls[2].resp.status # 200
    /\ Len(messages) = 4
    /\ messages[4].content = ErrorText

-----------------------------------------------------------------------------
(* C20 *)

\* the step in which handleUpload of upload u handles the failure of its request
Fails(u) ==
    /\ uploads[u].st = "fetching"
    /\ uploads'[u].st = "failed"

\* C20: when an upload fails (any non-success response of the upload
\* handler), the error is shown to the user and no conversation is started:
\* the upload-complete callback is never invoked for that upload (only an
\* upload with a success response starts its timer or completes, and a failed
\* upload stays failed).
C20_FailedUploadShowsErrorAndStartsNothing ==
    [][\A u \in DOMAIN uploads :
          /\ Fails(u) => uError' # ""
          /\ uploads'[u].st \in {"timer", "completed"} => uploads'[u].resp.status = 200
          /\ uploads[u].st = "failed" => uploads'[u].st = "failed"]_vars

\* ---------------------------------------------------------------------------
\* Claims C21 - C30
\* ---------------------------------------------------------------------------

(* C21 *)

\* the calls whose request has no document reference: the key is missing or empty
WithoutDocument ==
    {c \in DOMAIN calls :
        "fileUri" \notin DOMAIN calls[c].body \/ calls[c].body.fileUri = ""}

\* C21: a chat request whose document reference is missing or empty is answered
\* with an error response (status 400), and the AI backend is never invoked for it
C21_NoDocumentNoBackend ==
    \A c \in WithoutDocument :
        /\ calls[c].backend = NoBackendRequest
        /\ calls[c].st = "responded"
              => /\ calls[c].resp.status = 400
                 /\ "error" \in DOMAIN calls[c].resp
                 /\ "answer" \notin DOMAIN calls[c].resp

\* a request with a message and an empty document reference has been answered
C21_Witness ==
    \E c \in WithoutDocument :
        /\ calls[c].st = "responded"
        /\ calls[c].body.message # <<>>
        /\ "fileUri" \in DOMAIN calls[c].body

-----------------------------------------------------------------------------
(* C22 *)

\* the lines of a text: the pieces between its line feeds
Lines(t) ==
    LET feeds == {q \in 1..Len(t) : t[q] = "\n"}
        n == Cardinality(feeds)
        \* where the k-th line ends: at its line feed, or after the last character
        end(k) == IF k = 0 THEN 0
                  ELSE IF k = n + 1 THEN Len(t) + 1
                  ELSE CHOOSE q \in feeds : Cardinality({r \in feeds : r < q}) = k - 1
    IN [k \in 1..(n + 1) |-> SubSeq(t, end(k - 1) + 1, end(k) - 1)]

\* the first run of consecutive lines that start with "- "
FirstItemRun(ls) ==
    LET IsItem(l) == Len(l) >= 2 /\ l[1] = "-" /\ l[2] = " "
        RECURSIVE run(_)
        run(k) == IF k <= Len(ls) /\ IsItem(ls[k]) THEN <<ls[k]>> \o run(k + 1) ELSE <<>>
        starts == {k \in DOMAIN ls : IsItem(ls[k])}
    IN IF starts = {} THEN <<>>
       ELSE run(CHOOSE k \in starts : \A j \in starts : k <= j)

\* the calls for which the route has built an instruction, and their page lists
\* (the empty list when the request has none)
Instructed == {c \in DOMAIN calls : calls[c].backend # NoBackendRequest}

PagesOf(c) ==
    IF "images" \in DOMAIN calls[c].body THEN calls[c].body.images ELSE <<>>

\* C22: the instruction begins with the base instruction; it is exactly the base
\* instruction when the page list is empty or absent, and otherwise it goes on
\* with a section whose listing has one line per page, in input order, holding
\* that page's label
C22_InstructionListsPagesIffAny ==
    \A c \in Instructed :
        LET instr == calls[c].backend.systemInstruction
            pages == PagesOf(c)
            section == SubSeq(instr, Len(BaseInstruction) + 1, Len(instr))
            listing == FirstItemRun(Lines(section))
        IN /\ IsPrefix(BaseInstruction, instr)
           /\ pages = <<>> <=> instr = BaseInstruction
           /\ pages # <<>> =>
                 /\ Len(listing) = Len(pages)
                 /\ \A k \in DOMAIN pages :
                       IsPrefix(<<"-", " ">> \o pages[k].label \o <<" ", "(">>, listing[k])

\* an instruction has been built for a list of two pages given as page 2, page 1
C22_Witness ==
    \E c \in Instructed :
        /\ Len(PagesOf(c)) = 2
        /\ PagesOf(c)[1].pageNumber = 2
        /\ PagesOf(c)[2].pageNumber = 1

-----------------------------------------------------------------------------
(* C23 *)

\* the marker the instruction tells the assistant to use: the bracketed text of
\* the first line of the page section that has an opening bracket
InstructedMarker(instr) ==
    LET section == SubSeq(instr, Len(BaseInstruction) + 1, Len(instr))
        ls == Lines(section)
        Has(l, ch) == \E q \in DOMAIN l : l[q] = ch
        First(l, ch) == CHOOSE q \in DOMAIN l : l[q] = ch /\ \A r \in 1..(q - 1) : l[r] # ch
        with == {k \in DOMAIN ls : Has(ls[k], "[") /\ Has(ls[k], "]")}
        line == ls[CHOOSE k \in with : \A j \in with : k <= j]
    IN IF with = {} THEN <<>> ELSE SubSeq(line, First(line, "["), First(line, "]"))

\* C23: for every page list, the marker written exactly in the format given in
\* the instruction (built from the first page's label) is recognised by the
\* extractor as a page reference
C23_InstructedMarkerIsRecognised ==
    \A c \in Instructed :
        PagesOf(c) # <<>>
            => Len(parsePageReferences(InstructedMarker(calls[c].backend.systemInstruction))) = 1

-----------------------------------------------------------------------------
(* C24 *)

\* a call owns a temporary file from the moment tempPath is set until its
\* clean-up has run
HandlerLive == uPc \in {"write", "upload", "poll", "sleep", "join"}
PeerLive == peer.pc \in {"write", "upload", "poll"}

\* the step writes the file at the call's tempPath, uploads from it or unlinks it
HandlerTouches ==
    \/ uPc \in {"write", "upload"} /\ uPc' # uPc
    \/ HandlerLive /\ uPc' = "done"

PeerTouches ==
    \/ peer.pc \in {"write", "upload"} /\ peer'.pc # peer.pc
    \/ PeerLive /\ peer'.pc = "done"

\* C24: of two upload calls that run at the same time, also for files of the same
\* name, neither writes to, uploads from or deletes the temporary file of the other
C24_TempFileOwnedByOneCall ==
    [][/\ (HandlerTouches /\ PeerLive) => tempPath # peer.tempPath
       /\ (PeerTouches /\ HandlerLive) => peer.tempPath # tempPath]_vars

-----------------------------------------------------------------------------
(* C25 *)

\* the calls the chat route has answered with a success response
Answered ==
    {c \in DOMAIN calls : calls[c].st \in {"responded", "done"} /\ calls[c].resp.status = 200}

\* C25: every success response of the chat route carries a citation list, which
\* is empty when the backend returned no grounding metadata; in the conversation
\* log only assistant turns carry citations, never user turns
C25_CitationsOnAssistantTurnsOnly ==
    /\ \A c \in Answered :
          /\ "citations" \in DOMAIN calls[c].resp
          /\ DOMAIN calls[c].resp.citations = 1..Len(calls[c].resp.citations)
          /\ calls[c].grounding = NoGrounding => calls[c].resp.citations = <<>>
    /\ \A i \in DOMAIN messages :
          "citations" \in DOMAIN messages[i] => messages[i].role = "model"

\* the log holds a user turn, an assistant turn with citations and an assistant
\* turn whose response had no grounding metadata
C25_Witness ==
    /\ \E i \in DOMAIN messages : messages[i].role = "user"
    /\ \E i \in DOMAIN messages :
          "citations" \in DOMAIN messages[i] /\ messages[i].citations # <<>>
    /\ \E c \in Answered :
          /\ calls[c].st = "done"
          /\ calls[c].grounding = NoGrounding
          /\ \E i \in DOMAIN messages :
                "citations" \in DOMAIN messages[i] /\ messages[i].citations = <<>>

-----------------------------------------------------------------------------
(* C26 *)

\* C26: the rendering is an alternating sequence of plain-text spans and marker
\* tokens that starts and ends with a span: a text with k markers yields exactly
\* 2k+1 parts, a text without marker yields one span equal to the whole text,
\* and the empty span between two adjacent markers is kept
C26_RenderingAlternates ==
    formatted =>
        LET k == Len(MarkerNumbers(text))
        IN /\ Len(nodes) = 2 * k + 1
           /\ \A i \in DOMAIN nodes :
                 nodes[i].kind = (IF i % 2 = 1 THEN "span" ELSE "button")
           /\ k = 0 => nodes = <<[kind |-> "span", text |-> text]>>

\* a text made of two adjacent markers has been rendered: three empty spans
C26_Witness ==
    /\ formatted
    /\ text = ChMarker1 \o ChMarker2Lower
    /\ nodes = <<[kind |-> "span", text |-> <<>>],
                 [kind |-> "button", pageNumber |-> 1],
                 [kind |-> "span", text |-> <<>>],
                 [kind |-> "button", pageNumber |-> 2],
                 [kind |-> "span", text |-> <<>>]>>

-----------------------------------------------------------------------------
(* C27 *)

\* malformed markers: a page that is no number, no opening bracket, no closing
\* bracket
MalformedMarkers == {ChNoDigit, ChNoOpen, ChPrefix \o ChDigit1}

\* where m stands in t without sharing a character with a well-formed marker
MalformedIn(t, m) ==
    {i \in 1..(Len(t) - Len(m) + 1) :
        /\ SubSeq(t, i, i + Len(m) - 1) = m
        /\ \A a \in 1..(i + Len(m) - 1) : \A b \in i..Len(t) :
              a <= b => ~IsMarker(SubSeq(t, a, b))}

\* how often m stands, in that way, in the spans of a rendering
MalformedInSpans(ns, m) ==
    LET RECURSIVE count(_)
        count(k) ==
            IF k > Len(ns) THEN 0
            ELSE (IF ns[k].kind = "span" THEN Cardinality(MalformedIn(ns[k].text, m))
                  ELSE 0) + count(k + 1)
    IN count(1)

\* C27: a malformed marker (page not numeric, opening or closing bracket missing)
\* is never matched: the extractor returns a page number for the well-formed
\* markers only, and every malformed marker of the text stands unchanged in a
\* plain-text span of the rendering
C27_MalformedMarkersAreText ==
    /\ parsed => Len(pageRefs) = Len(MarkerNumbers(text))
    /\ formatted =>
          /\ Cardinality({k \in DOMAIN nodes : nodes[k].kind = "button"})
                = Len(MarkerNumbers(text))
          /\ \A m \in MalformedMarkers :
                MalformedInSpans(nodes, m) = Cardinality(MalformedIn(text, m))

\* a text with a marker between a marker whose page is no number and a marker
\* without opening bracket has been parsed and rendered
C27_Witness ==
    /\ text = ChNoDigit \o ChMarker1 \o ChNoOpen
    /\ parsed
    /\ pageRefs = <<1>>
    /\ formatted
    /\ nodes = <<[kind |-> "span", text |-> ChNoDigit],
                 [kind |-> "button", pageNumber |-> 1],
                 [kind |-> "span", text |-> ChNoOpen]>>

-----------------------------------------------------------------------------
(* C28 *)

\* C28: every success response of the upload handler carries either the
\* sessionId of the extraction together with its complete image list (every
\* image of the service's answer, in the service's order), or the empty
\* sessionId together with the empty list
C28_ExtractionJoinedWhole ==
    (Returned /\ uResp.status = 200) =>
        IF extInner = "resolved"
        THEN /\ uResp.sessionId = extData.session_id
             /\ Len(uResp.images) = Len(extData.images)
             /\ \A k \in DOMAIN extData.images :
                   /\ uResp.images[k].id = extData.images[k].id
                   /\ uResp.images[k].pageNumber = extData.images[k].page_number
                   /\ uResp.images[k].url[2] = extData.session_id
        ELSE /\ uResp.sessionId = ""
             /\ uResp.images = <<>>

\* a success response after the service answered with two images
C28_Witness ==
    /\ Returned
    /\ uResp.status = 200
    /\ extInner = "resolved"
    /\ uResp.sessionId = "s1"
    /\ Len(extData.images) = 2
    /\ Len(uResp.images) = 2

-----------------------------------------------------------------------------
(* C29 *)

\* C29: each button of a rendered assistant turn is bound to the page number of
\* its own marker: activating the button of the n-th marker of the turn calls
\* the page-click callback with that marker's number, which becomes the
\* highlighted page
C29_TokenBoundToItsMarker ==
    [][(signals' # signals /\ calls' = calls) =>
         LET content == messages[clicked'.msg].content
             N == MarkerNumbers(content)[clicked'.part \div 2]
         IN /\ signals' = Append(signals, N)
            /\ highlightedPage' = N]_vars

\* the button of the second marker of a turn has been activated while the page
\* of its first marker was highlighted
C29_Witness ==
    /\ clicked # NoClick
    /\ clicked.part = 4
    /\ Len(signals) >= 2
    /\ signals[Len(signals) - 1] = 2
    /\ signals[Len(signals)] = 1
    /\ highlightedPage = 1

-----------------------------------------------------------------------------
(* C30 *)

\* user, model, user, model, ...: the entry at an odd place is a user turn, the
\* entry at an even place a model turn
Alternates(log) ==
    \A i \in DOMAIN log : log[i].role = (IF i % 2 = 1 THEN "user" ELSE "model")

\* C30: in every state of a conversation the log alternates user, model, ...
\* beginning with a user turn; its length is even while no request is in flight
\* and odd while one is; so the history sent to the backend is empty or begins
\* with a user turn and ends with a model turn
C30_LogAlternates ==
    /\ Alternates(messages)
    /\ Len(messages) % 2 = (IF InFlight = {} THEN 0 ELSE 1)
    /\ \A c \in DOMAIN calls :
          LET history == calls[c].body.history
          IN /\ Alternates(history)
             /\ history # <<>> => /\ history[1].role = "user"
                                  /\ history[Len(history)].role = "model"

\* a request is in flight after a turn that succeeded and a turn that failed
C30_Witness ==
    /\ Len(calls) = 3
    /\ calls[1].st = "done" /\ calls[1].resp.status = 200
    /\ calls[2].st = "done" /\ calls[2].resp.status # 200
    /\ calls[3].st = "fetching"
    /\ Len(calls[3].body.history) = 4
    /\ Len(messages) = 5

-----------------------------------------------------------------------------
(* C31 *)

\* how many text parts with text t the parts hold
TextCount(parts, t) == Cardinality({k \in DOMAIN parts : parts[k] = TextPart(t)})

\* C31: the history sent with a chat request is the log as it was before the
\* user turn of that request was appended (the log up to that turn, the turn
\* excluded), and the new user message reaches the backend once, as the new
\* message, and not again as the last entry of the history
C31_HistoryIsLogBeforeUserTurn ==
    \A c \in DOMAIN calls :
        LET history == calls[c].body.history
            n == Len(history)
            userTurn == [role |-> "user", content |-> calls[c].body.message]
        IN /\ Len(messages) > n
           /\ history = SubSeq(messages, 1, n)
           /\ messages[n + 1] = userTurn
           /\ n > 0 => history[n].role = "model"
           /\ c \in AskedBackend =>
                 /\ Len(calls[c].backend.history) = n
                 /\ TextCount(calls[c].backend.message, calls[c].body.message) = 1
                 /\ n > 0 => calls[c].backend.history[n].role = "model"

\* the backend has been asked for the second turn of a conversation: the history
\* holds the first turn, the new message is the same question again
C31_Witness ==
    \E c \in AskedBackend :
        /\ Len(calls[c].body.history) = 2
        /\ calls[c].body.history[1].content = calls[c].body.message
        /\ Len(calls[c].backend.history) = 2

-----------------------------------------------------------------------------
(* C32 *)

\* call c was sent by a chat that is gone (the session was reset since), or for
\* a document that is no longer the current one
Stale(c) ==
    \/ ~ChatMounted
    \/ calls[c].inst # inst
    \/ calls[c].body.fileUri # uploadData.fileUri

\* the step in which the continuation of sendMessage of call c runs
Continues(c) ==
    /\ c \in DOMAIN calls
    /\ calls[c].st \in {"responded", "rejected"}
    /\ calls'[c].st = "done"

\* C32: a chat response that arrives after the session was reset, or after a new
\* document was uploaded, never changes the highlighted page
C32_LateResponseKeepsHighlight ==
    [][\A c \in DOMAIN calls :
          (Continues(c) /\ Stale(c)) => highlightedPage' = highlightedPage]_vars

-----------------------------------------------------------------------------
(* C33 *)

\* C33: between the arrival of a success response and the firing of the
\* upload-complete callback no second upload can be started from the uploader,
\* so at most one upload's completion is ever delivered per uploader instance:
\* an upload started from an uploader after another one of the same uploader
\* was started only after that one had failed
C33_OneCompletionPerUploader ==
    \A u, v \in DOMAIN uploads :
        (u < v /\ uploads[u].inst = uploads[v].inst) => uploads[u].st = "failed"

-----------------------------------------------------------------------------
(* C34 *)

\* C34: a success response of the upload handler is returned only when the last
\* polled file state is neither PROCESSING nor FAILED, and the fileUri it
\* carries is the one the registration call of that same request issued
C34_SuccessOnlyAfterProcessing ==
    (Returned /\ uResp.status = 200)
        => /\ fileState \in FileStates \ {"PROCESSING", "FAILED"}
           /\ regUri \in Uris
           /\ uResp.fileUri = regUri

\* the second request was answered with success; the file state polled last
\* was STATE_UNSPECIFIED, the registration had issued files/u2
C34_Witness ==
    /\ Returned
    /\ nReq = 2
    /\ uResp.status = 200
    /\ fileState = "STATE_UNSPECIFIED"
    /\ uResp.fileUri = "files/u2"

-----------------------------------------------------------------------------
(* C35 *)

\* the page numbers of the marker tokens of a rendering, in order
TokenPages(rendered) ==
    LET IsToken(node) == node.kind = "button"
        tokens == SelectSeq(rendered, IsToken)
    IN [k \in 1..Len(tokens) |-> tokens[k].pageNumber]

\* C35: for any text, the marker tokens of the rendering correspond one-to-one
\* and in order with the page numbers the extractor returns: as many entries,
\* with the same page numbers, so that the page highlighted automatically is the
\* page of the first clickable token
C35_TokensAreTheExtractedPages ==
    (parsed /\ formatted) =>
        /\ TokenPages(nodes) = pageRefs
        /\ HighlightSignal(pageRefs) =
              (IF TokenPages(nodes) = <<>> THEN <<>> ELSE <<TokenPages(nodes)[1]>>)

\* a text with a malformed marker and two markers, the higher page first, has
\* been extracted and rendered
C35_Witness ==
    /\ parsed
    /\ formatted
    /\ text = ChNoDigit \o ChMarker2Lower \o ChMarker1
    /\ pageRefs = <<2, 1>>
    /\ TokenPages(nodes) = <<2, 1>>

-----------------------------------------------------------------------------
(* C36 *)

\* the request of call c has failed: fetch rejected, or the response is not ok
RequestFailed(c) ==
    \/ calls[c].st = "rejected"
    \/ calls[c].st = "responded" /\ calls[c].resp.status # 200

\* C36: a failed turn leaves the highlighted page unchanged: when the chat
\* request fails or returns a non-success status, sendMessage emits no
\* highlight signal
C36_FailedTurnKeepsHighlight ==
    [][\A c \in DOMAIN calls :
          (Continues(c) /\ RequestFailed(c))
              => (highlightedPage' = highlightedPage /\ signals' = signals)]_vars

\* the second turn has failed and its fallback message is in the log; the
\* highlight is still the page the first answer referenced
C36_Witness ==
    /\ Len(calls) >= 2
    /\ calls[1].st = "done" /\ calls[1].resp.status = 200
    /\ calls[2].st = "done" /\ calls[2].resp.status # 200
    /\ messages[Len(messages)].content = ErrorText
    /\ highlightedPage = 2
    /\ signals = <<2>>

-----------------------------------------------------------------------------
(* C37 *)

\* the step in which a request arrives whose form holds no file
ArrivesWithoutFile ==
    /\ nReq' = nReq + 1
    /\ uFile' = NoFile

-----------------------------------------------------------------------------
(* C38 *)

\* the step of an invocation of sendMessage: it was ignored or has sent a request
Submits ==
    /\ lastTrigger' \in {"sent", "ignored"}
    /\ lastTrigger' # lastTrigger \/ Len(calls') > Len(calls)

\* C38: submitting an empty or whitespace-only input, or submitting while a
\* request is in flight, is a no-op: the conversation log, the input text, the
\* loading flag and the highlighted page are unchanged and no request is sent
C38_BlankOrBusySubmitIsNoOp ==
    [][(Submits /\ (Trim(input) = <<>> \/ loading \/ InFlight # {})) =>
          /\ lastTrigger' = "ignored"
          /\ messages' = messages
          /\ input' = input
          /\ loading' = loading
          /\ highlightedPage' = highlightedPage
          /\ signals' = signals
          /\ calls' = calls]_vars

\* an input of white space only has been submitted while no request was in
\* flight, after an answer had highlighted a page: the input is still there,
\* the log holds the one turn, the page is still highlighted
C38_Witness ==
    /\ lastTrigger = "ignored"
    /\ input # <<>>
    /\ Trim(input) = <<>>
    /\ ~loading
    /\ InFlight = {}
    /\ Len(calls) = 1
    /\ Len(messages) = 2
    /\ highlightedPage = 2

====
